---- MODULE Spec2Model ----
(***************************************************************************)
(* HuffZip (src/main.cpp): Huffman file compressor.                        *)
(*                                                                         *)
(* One process run performs one operation (main, lines 199-234): either    *)
(* compressFile or decompressFile.  The model follows a file through a     *)
(* compress run (or an artifact placed on disk by the environment) and a   *)
(* later decompress run.                                                   *)
(*                                                                         *)
(* Representation:                                                         *)
(*   - a file is a sequence of raw bytes 0..255;                           *)
(*   - a `char` is a signed 8-bit value -128..127 (g++ on x86, the build   *)
(*     the README names); std::map<char,...> iterates in ascending order   *)
(*     of that signed value;                                               *)
(*   - heap-allocated HuffmanNode objects live in an arena: a sequence of  *)
(*     records, a pointer is an index into it and 0 is nullptr;            *)
(*   - a std::string of '0'/'1' characters is a sequence over {0, 1};      *)
(*   - std::priority_queue is the binary heap of libstdc++ (push_heap /    *)
(*     pop_heap on a vector), which fixes how equal weights are ordered.   *)
(***************************************************************************)
EXTENDS Integers, Sequences, FiniteSets, TLC

\* ------------------------------------------------------------------ bounds
\* Longest input buffer given to compressFile.
MaxLen == 6
\* Longest payload (in bytes) of an artifact crafted by the environment.
MaxPayload == 2

\* Byte values the input buffers are drawn from (0, 'A', 'B', 0xC8).
InputBytes == {0, 65, 66, 200}
\* Byte values crafted payloads are drawn from (0x00, 0x50, 0xFF).
PayloadBytes == {0, 80, 255}

\* ------------------------------------------------------------ characters
NL == 10
SP == 32
MINUS == 45
ZERO == 48

\* static_cast<char>(int): wrap into the signed 8-bit range.
ToChar(v) == ((v + 128) % 256) - 128

\* The raw byte a char is written as (ostream::put) or a bitset<8> is built from.
ToByte(c) == c % 256

RECURSIVE SeqMap(_, _)
\* content of a file read into a std::string: each raw byte becomes a char.
SeqMap(s, i) ==
    IF i > Len(s) THEN <<>> ELSE <<ToChar(s[i])>> \o SeqMap(s, i + 1)

Range(s) == {s[i] : i \in 1..Len(s)}

\* ------------------------------------------------------- frequency table
\* buildFrequencyTable: freqTable[c]++ for every char of content.
buildFrequencyTable(content) ==
    [c \in Range(content) |-> Cardinality({i \in 1..Len(content) : content[i] = c})]

Min(S) == CHOOSE x \in S : \A y \in S : x <= y

RECURSIVE SortedKeys(_)
\* Iteration order of std::map<char,...>: ascending keys.
SortedKeys(S) ==
    IF S = {} THEN <<>> ELSE <<Min(S)>> \o SortedKeys(S \ {Min(S)})

\* ------------------------------------------------------------- the heap
\* new HuffmanNode(data, freq): left and right are nullptr.
HuffmanNode(data, freq) == [data |-> data, freq |-> freq, left |-> 0, right |-> 0]

\* NodeComparator()(left, right): left->freq > right->freq.
NodeComparator(nodes, l, r) == nodes[l].freq > nodes[r].freq

RECURSIVE PushHeap(_, _, _, _, _)
\* std::__push_heap(first, holeIndex, topIndex, value, comp); indices 0-based.
PushHeap(nodes, h, hole, top, value) ==
    IF hole > top /\ NodeComparator(nodes, h[((hole - 1) \div 2) + 1], value)
    THEN PushHeap(nodes, [h EXCEPT ![hole + 1] = h[((hole - 1) \div 2) + 1]],
                  (hole - 1) \div 2, top, value)
    ELSE [h EXCEPT ![hole + 1] = value]

\* priority_queue::push: c.push_back(x); push_heap(c.begin(), c.end()).
HeapPush(nodes, h, x) == PushHeap(nodes, Append(h, x), Len(h), 0, x)

RECURSIVE SiftDown(_, _, _, _, _)
\* The while loop of std::__adjust_heap: move the smaller-weight child up.
SiftDown(nodes, h, hole, second, len) ==
    IF second < (len - 1) \div 2
    THEN LET sc  == 2 * (second + 1)
             sel == IF NodeComparator(nodes, h[sc + 1], h[sc]) THEN sc - 1 ELSE sc
         IN  SiftDown(nodes, [h EXCEPT ![hole + 1] = h[sel + 1]], sel, sel, len)
    ELSE [h |-> h, hole |-> hole, second |-> second]

\* The rest of std::__adjust_heap after its loop left the state d: a last
\* lone left child moves up, then the value is pushed from the hole.
AdjustTail(nodes, d, len, value) ==
    IF len % 2 = 0 /\ d.second = (len - 2) \div 2
    THEN PushHeap(nodes, [d.h EXCEPT ![d.hole + 1] = d.h[2 * (d.second + 1)]],
                  2 * (d.second + 1) - 1, 0, value)
    ELSE PushHeap(nodes, d.h, d.hole, 0, value)

\* std::__adjust_heap(first, holeIndex = 0, len, value, comp).
AdjustHeap(nodes, h, len, value) ==
    AdjustTail(nodes, SiftDown(nodes, h, 0, 0, len), len, value)

\* priority_queue::pop: pop_heap(c.begin(), c.end()); c.pop_back().
HeapPop(nodes, h) ==
    IF Len(h) > 1
    THEN SubSeq(AdjustHeap(nodes, [h EXCEPT ![Len(h)] = h[1]], Len(h) - 1, h[Len(h)]),
                1, Len(h) - 1)
    ELSE <<>>

\* ------------------------------------------------------------- the tree
\* minHeap.push(new HuffmanNode(...)): the node is allocated, then pushed.
\* q is the arena with the heap: [nodes, heap].
PushNew(q, node) ==
    [nodes |-> Append(q.nodes, node),
     heap  |-> HeapPush(Append(q.nodes, node), q.heap, Len(q.nodes) + 1)]

RECURSIVE PushLeaves(_, _, _)
\* Lines 39-41: one leaf per table entry, in map order.
PushLeaves(freqTable, keys, q) ==
    IF keys = <<>> THEN q
    ELSE PushLeaves(freqTable, Tail(keys),
                    PushNew(q, HuffmanNode(Head(keys), freqTable[Head(keys)])))

\* Lines 46-51: right is the top after the first pop; the parent of left and
\* right is pushed on the heap left by the second pop.
CombineTwo(nodes, left, h1) ==
    PushNew([nodes |-> nodes, heap |-> HeapPop(nodes, h1)],
            [data |-> 0, freq |-> nodes[left].freq + nodes[h1[1]].freq,
             left |-> left, right |-> h1[1]])

RECURSIVE Combine(_)
\* Lines 44-52: while more than one node remains, combine the two lightest.
Combine(q) ==
    IF Len(q.heap) > 1
    THEN Combine(CombineTwo(q.nodes, q.heap[1], HeapPop(q.nodes, q.heap)))
    ELSE q

\* Line 54: return minHeap.top().  On an empty heap this reads the front of
\* an empty vector: undefined behaviour, reported as ub.
TopOf(q) ==
    IF q.heap = <<>>
    THEN [nodes |-> q.nodes, root |-> 0, ub |-> TRUE]
    ELSE [nodes |-> q.nodes, root |-> q.heap[1], ub |-> FALSE]

\* buildHuffmanTree(freqTable).
buildHuffmanTree(freqTable) ==
    TopOf(Combine(PushLeaves(freqTable, SortedKeys(DOMAIN freqTable),
                             [nodes |-> <<>>, heap |-> <<>>])))

IsLeaf(nodes, n) == nodes[n].left = 0 /\ nodes[n].right = 0

\* ------------------------------------------------------------ the codes
\* huffmanCodes[k] = v on a std::map.
MapPut(m, k, v) == [x \in (DOMAIN m) \cup {k} |-> IF x = k THEN v ELSE m[x]]

EmptyMap == [x \in {} |-> 0]

RECURSIVE generateHuffmanCodesSameBit(_, _, _, _)
\* generateHuffmanCodes with code + "0" passed to both recursive calls.
generateHuffmanCodesSameBit(nodes, root, code, huffmanCodes) ==
    IF root = 0 THEN huffmanCodes
    ELSE LET c1 == IF nodes[root].data # 0
                   THEN MapPut(huffmanCodes, nodes[root].data, code)
                   ELSE huffmanCodes
             c2 == generateHuffmanCodesSameBit(nodes, nodes[root].left,
                                               Append(code, 0), c1)
         IN  generateHuffmanCodesSameBit(nodes, nodes[root].right, Append(code, 0), c2)

RECURSIVE generateHuffmanCodes(_, _, _, _)
\* generateHuffmanCodes: a node whose data is not '\0' records the path so far.
generateHuffmanCodes(nodes, root, code, huffmanCodes) ==
    IF root = 0 THEN huffmanCodes
    ELSE LET c1 == IF nodes[root].data # 0
                   THEN MapPut(huffmanCodes, nodes[root].data, code)
                   ELSE huffmanCodes
             c2 == generateHuffmanCodes(nodes, nodes[root].left, Append(code, 0), c1)
         IN  generateHuffmanCodes(nodes, nodes[root].right, Append(code, 1), c2)

\* huffmanCodes[c] as the encode loop reads it: a missing key is inserted
\* with an empty string (std::map::operator[]).
CodeOf(huffmanCodes, c) ==
    IF c \in DOMAIN huffmanCodes THEN huffmanCodes[c] ELSE <<>>

RECURSIVE EncodeContent(_, _, _)
\* Lines 105-108: encoded += huffmanCodes[c] for every char of content.
EncodeContent(content, i, huffmanCodes) ==
    IF i > Len(content) THEN <<>>
    ELSE CodeOf(huffmanCodes, content[i]) \o EncodeContent(content, i + 1, huffmanCodes)

\* The code table after the encode loop: operator[] has inserted every char read.
CodesAfterEncode(content, huffmanCodes) ==
    [c \in (DOMAIN huffmanCodes) \cup Range(content) |-> CodeOf(huffmanCodes, c)]

RECURSIVE Zeros(_)
Zeros(n) == IF n <= 0 THEN <<>> ELSE <<0>> \o Zeros(n - 1)

\* Lines 111-114 without the `padding != 8` test.
PadBitsAlways(encoded) == encoded \o Zeros(8 - (Len(encoded) % 8))

\* Lines 111-114: padding = 8 - len % 8, appended unless it is 8.
PadBits(encoded) ==
    IF 8 - (Len(encoded) % 8) # 8
    THEN encoded \o Zeros(8 - (Len(encoded) % 8))
    ELSE encoded

\* bitset<8>(str).to_ulong(): the first character is the most significant bit.
BitsetToUlong(b) ==
    128 * b[1] + 64 * b[2] + 32 * b[3] + 16 * b[4] + 8 * b[5] + 4 * b[6] + 2 * b[7] + b[8]

RECURSIVE PackBytes(_, _)
\* Lines 117-120: one byte per 8 characters of encoded, from offset i (0-based).
PackBytes(encoded, i) ==
    IF i >= Len(encoded) THEN <<>>
    ELSE <<BitsetToUlong(SubSeq(encoded, i + 1, i + 8))>> \o PackBytes(encoded, i + 8)

\* bitset<8>(byte).to_string(): 8 characters, most significant bit first.
BitsetToString(byte) ==
    [k \in 1..8 |-> (ToByte(byte) \div (2 ^ (8 - k))) % 2]

RECURSIVE BytesToBits(_, _)
\* Lines 160-165: encoded += bits.to_string() for every byte from position i.
BytesToBits(f, i) ==
    IF i > Len(f) THEN <<>> ELSE BitsetToString(ToChar(f[i])) \o BytesToBits(f, i + 1)

\* ------------------------------------------------------- header, written
RECURSIVE FormatNat(_)
\* operator<< on a non-negative integer: its decimal digits.
FormatNat(n) ==
    IF n < 10 THEN <<ZERO + n>> ELSE FormatNat(n \div 10) \o <<ZERO + (n % 10)>>

\* operator<< on an int.
FormatInt(n) == IF n < 0 THEN <<MINUS>> \o FormatNat(0 - n) ELSE FormatNat(n)

RECURSIVE FormatPairs(_, _)
\* Lines 100-102: "<int(symbol)> <frequency>\n" per entry, in map order.
FormatPairs(freqTable, keys) ==
    IF keys = <<>> THEN <<>>
    ELSE FormatInt(Head(keys)) \o <<SP>> \o FormatInt(freqTable[Head(keys)]) \o <<NL>>
         \o FormatPairs(freqTable, Tail(keys))

\* Lines 99-102: the table size on a line, then the pairs.
FormatHeader(freqTable) ==
    FormatNat(Cardinality(DOMAIN freqTable)) \o <<NL>>
    \o FormatPairs(freqTable, SortedKeys(DOMAIN freqTable))

\* -------------------------------------------------------- header, parsed
\* An ifstream over file f: pos is the next byte (1-based), with its eofbit
\* and failbit.
StreamOpen == [pos |-> 1, eof |-> FALSE, fail |-> FALSE]
Good(st) == ~st.eof /\ ~st.fail

IsSpace(b) == b \in {9, 10, 11, 12, 13, 32}
IsDigit(b) == b \in ZERO..(ZERO + 9)

RECURSIVE SkipWs(_, _)
SkipWs(f, pos) ==
    IF pos <= Len(f) /\ IsSpace(f[pos]) THEN SkipWs(f, pos + 1) ELSE pos

RECURSIVE ReadDigits(_, _, _)
\* Accumulate decimal digits from pos; returns the value and the stop position.
ReadDigits(f, pos, acc) ==
    IF pos <= Len(f) /\ IsDigit(f[pos])
    THEN ReadDigits(f, pos + 1, 10 * acc + (f[pos] - ZERO))
    ELSE [val |-> acc, pos |-> pos]

\* istream::operator>>(int&).  The sentry fails on a stream that is not good
\* or that ends while whitespace is skipped, and then the variable is left
\* unassigned; a field with no digit assigns 0 and sets failbit.
ReadInt(f, st) ==
    IF ~Good(st)
    THEN [st |-> [st EXCEPT !.fail = TRUE], assigned |-> FALSE, val |-> 0]
    ELSE LET p0 == SkipWs(f, st.pos) IN
         IF p0 > Len(f)
         THEN [st |-> [pos |-> p0, eof |-> TRUE, fail |-> TRUE],
               assigned |-> FALSE, val |-> 0]
         ELSE LET neg == f[p0] = MINUS
                  p1  == IF f[p0] \in {MINUS, 43} THEN p0 + 1 ELSE p0
                  d   == ReadDigits(f, p1, 0)
              IN  [st |-> [pos |-> d.pos, eof |-> d.pos > Len(f), fail |-> d.pos = p1],
                   assigned |-> TRUE,
                   val |-> IF neg THEN 0 - d.val ELSE d.val]

\* istream::ignore(): drop one byte; at the end of the file set eofbit.
Ignore(f, st) ==
    IF ~Good(st) THEN [st EXCEPT !.fail = TRUE]
    ELSE IF st.pos > Len(f) THEN [st EXCEPT !.eof = TRUE]
    ELSE [st EXCEPT !.pos = st.pos + 1]

RECURSIVE ReadPairs(_, _, _, _, _)
\* Lines 151-157.  ub: charValue or freq is read while still unassigned.
ReadPairs(f, st, i, tableSize, freqTable) ==
    IF i >= tableSize THEN [st |-> st, freqTable |-> freqTable, ub |-> FALSE]
    ELSE LET r1 == ReadInt(f, st)
             r2 == ReadInt(f, r1.st)
         IN  IF ~r1.assigned \/ ~r2.assigned
             THEN [st |-> r2.st, freqTable |-> freqTable, ub |-> TRUE]
             ELSE ReadPairs(f, Ignore(f, r2.st), i + 1, tableSize,
                            MapPut(freqTable, ToChar(r1.val), r2.val))

\* Lines 146-157.  ub: tableSize is compared while still unassigned.
ReadHeader(f) ==
    LET r == ReadInt(f, StreamOpen) IN
    IF ~r.assigned THEN [st |-> r.st, freqTable |-> EmptyMap, ub |-> TRUE]
    ELSE ReadPairs(f, Ignore(f, r.st), 0, r.val, EmptyMap)

\* Lines 160-165: while (inFile.get(byte)) reads the rest of a good stream.
ReadPayload(f, st) == IF Good(st) THEN BytesToBits(f, st.pos) ELSE <<>>

RECURSIVE SumFreq(_, _)
\* Lines 177-179: totalChars += pair.second.
SumFreq(freqTable, keys) ==
    IF keys = <<>> THEN 0 ELSE freqTable[Head(keys)] + SumFreq(freqTable, Tail(keys))

\* ---------------------------------------------------------- compressFile
NoTree == [nodes |-> <<>>, root |-> 0, ub |-> FALSE]

\* What compressFile leaves behind when it returns before line 87.
CompressError ==
    [outcome |-> "error", opened |-> FALSE, built |-> FALSE, freqTable |-> EmptyMap,
     tree |-> NoTree, genCodes |-> EmptyMap, huffmanCodes |-> EmptyMap,
     payload |-> <<>>, file |-> <<>>]

\* Lines 97-133: the header and the packed payload are written.
WriteArtifact(ft, tree, codes, huffmanCodes, bytes) ==
    [outcome |-> IF tree.ub THEN "crash" ELSE "success",
     opened |-> ~tree.ub, built |-> TRUE, freqTable |-> ft, tree |-> tree,
     genCodes |-> codes, huffmanCodes |-> huffmanCodes, payload |-> bytes,
     file |-> IF tree.ub THEN <<>> ELSE FormatHeader(ft) \o bytes]

\* Lines 104-120: encode, pad, pack.
EncodeWith(content, ft, tree, codes) ==
    WriteArtifact(ft, tree, codes, CodesAfterEncode(content, codes),
                  PackBytes(PadBits(EncodeContent(content, 1, codes)), 0))

\* Lines 93-95: the codes of the tree.
CompressTree(content, ft, tree) ==
    EncodeWith(content, ft, tree,
               generateHuffmanCodes(tree.nodes, tree.root, <<>>, EmptyMap))

\* Lines 90-91: the tree of the table.
CompressTable(content, ft) == CompressTree(content, ft, buildHuffmanTree(ft))

\* Lines 87-133 on a buffer already read: table, tree, codes, header, payload.
CompressCore(content) == CompressTable(content, buildFrequencyTable(content))

\* compressFile without the emptiness test of lines 82-85.
compressFileNoEmptyTest(exists, bytes) ==
    IF ~exists THEN CompressError ELSE CompressCore(SeqMap(bytes, 1))

\* compressFile(inputFile, outputFile): exists says whether inputFile can be
\* opened, bytes is what it holds.
compressFile(exists, bytes) ==
    IF ~exists THEN CompressError
    ELSE IF SeqMap(bytes, 1) = <<>> THEN CompressError
    ELSE CompressCore(SeqMap(bytes, 1))

\* ------------------------------------------------------------ the inputs
RECURSIVE SeqsUpTo(_, _)
\* All sequences over S of length at most n.
SeqsUpTo(S, n) ==
    IF n = 0 THEN {<<>>}
    ELSE LET shorter == SeqsUpTo(S, n - 1)
         IN  shorter \cup {Append(s, x) : s \in {t \in shorter : Len(t) = n - 1}, x \in S}

Buffers == SeqsUpTo(InputBytes, MaxLen)

\* Headers an artifact not written by compressFile may carry: a declared
\* count, then pairs (symbol, frequency) as text lines.
CraftCounts == {0, 1, 2, 257}
CraftPairs == {<<sym, f>> : sym \in {0, 65}, f \in {0, 1, 5}}
RECURSIVE PairLines(_)
PairLines(ps) ==
    IF ps = <<>> THEN <<>>
    ELSE FormatInt(Head(ps)[1]) \o <<SP>> \o FormatInt(Head(ps)[2]) \o <<NL>>
         \o PairLines(Tail(ps))

CraftedFiles ==
    {FormatNat(n) \o <<NL>> \o PairLines(ps) \o pl :
        n \in CraftCounts, ps \in SeqsUpTo(CraftPairs, 2),
        pl \in SeqsUpTo(PayloadBytes, MaxPayload)}
    \cup {<<>>, <<120>>, <<49, NL, 120>>}

\* Outcomes of a run that executed undefined behaviour.
UBOutcomes == {"crash", "success"}

\* --------------------------------------------------------------- state
VARIABLES
    mode,          \* "init", "stored" (an artifact is on disk), "decoding", "done"
    origin,        \* who wrote the artifact: "none", "compressed", "crafted"
    inputOpened,   \* compressFile could open its input file
    input,         \* raw bytes of the file given to compressFile
    cOutcome,      \* "none", "error", "success", "crash"
    freqTable,     \* compressFile: freqTable
    huffmanTree,   \* compressFile: the tree (arena and root)
    treeBuilt,     \* compressFile reached buildHuffmanTree
    genCodes,      \* huffmanCodes after generateHuffmanCodes (line 95)
    huffmanCodes,  \* huffmanCodes after the encode loop (line 108)
    payload,       \* the bytes written by outFile.put (line 119)
    fileExists,    \* the artifact file has been created
    file,          \* raw bytes of the artifact
    dFreqTable,    \* decompressFile: freqTable
    dBuildCalled,  \* decompressFile reached buildHuffmanTree (line 169)
    dTree,         \* decompressFile: the rebuilt tree
    encoded,       \* decompressFile: the payload as '0'/'1' characters
    bitPos,        \* decode loop: number of characters of encoded consumed
    current,       \* decode loop: the cursor
    decodedCount,  \* decode loop: decodedCount
    totalChars,    \* decode loop: totalChars
    stopped,       \* decode loop: the break of line 191 was taken
    outOpened,     \* decompressFile created its output file
    output,        \* raw bytes written to the output file
    dOutcome,      \* "none", "error", "success", "crash"
    ub             \* the run executed undefined behaviour

compressVars == <<inputOpened, input, cOutcome, freqTable, huffmanTree, treeBuilt, genCodes,
                  huffmanCodes, payload>>
fileVars == <<origin, fileExists, file>>
headerVars == <<dFreqTable, dBuildCalled, dTree, encoded, totalChars>>
loopVars == <<bitPos, current, decodedCount, stopped, output>>
vars == <<mode, compressVars, fileVars, headerVars, loopVars, outOpened, dOutcome, ub>>

Init ==
    /\ mode = "init" /\ origin = "none" /\ inputOpened = FALSE /\ input = <<>>
    /\ cOutcome = "none"
    /\ freqTable = EmptyMap /\ huffmanTree = NoTree /\ treeBuilt = FALSE
    /\ genCodes = EmptyMap /\ huffmanCodes = EmptyMap /\ payload = <<>>
    /\ fileExists = FALSE /\ file = <<>>
    /\ dFreqTable = EmptyMap /\ dBuildCalled = FALSE /\ dTree = NoTree
    /\ encoded = <<>> /\ bitPos = 0 /\ current = 0 /\ decodedCount = 0
    /\ totalChars = 0 /\ stopped = FALSE /\ outOpened = FALSE /\ output = <<>>
    /\ dOutcome = "none" /\ ub = FALSE

\* A run of the program with choice 1 (lines 225-226).
CompressRun ==
    /\ mode = "init"
    /\ cOutcome = "none"
    /\ \E exists \in BOOLEAN, bytes \in Buffers :
        /\ exists \/ bytes = <<>>
        /\ \E r \in {compressFile(exists, bytes)} :
            /\ inputOpened' = exists
            /\ input' = bytes
            /\ cOutcome' = r.outcome
            /\ freqTable' = r.freqTable
            /\ huffmanTree' = r.tree
            /\ treeBuilt' = r.built
            /\ genCodes' = r.genCodes
            /\ huffmanCodes' = r.huffmanCodes
            /\ payload' = r.payload
            /\ fileExists' = r.opened
            /\ file' = r.file
            /\ origin' = IF r.opened THEN "compressed" ELSE "none"
            /\ mode' = IF r.opened THEN "stored" ELSE "init"
    /\ UNCHANGED <<headerVars, loopVars, outOpened, dOutcome, ub>>

\* The environment puts an artifact on disk that compressFile did not write.
WriteFile ==
    /\ mode = "init"
    /\ cOutcome = "none"
    /\ fileExists' = TRUE
    /\ \E f \in CraftedFiles : file' = f
    /\ origin' = "crafted"
    /\ mode' = "stored"
    /\ UNCHANGED <<compressVars, headerVars, loopVars, outOpened, dOutcome, ub>>

\* A run with choice 2, lines 137-179: open, read header and payload, rebuild
\* the tree, open the output file, sum the frequencies.
DecompressOpen ==
    /\ mode \in {"init", "stored"}
    /\ dOutcome = "none"
    /\ \E ubOutcome \in UBOutcomes :
       IF ~fileExists
       THEN /\ mode' = "done" /\ dOutcome' = "error"
            /\ UNCHANGED <<headerVars, loopVars, outOpened, ub>>
       ELSE \E h \in {ReadHeader(file)} : \E tree \in {buildHuffmanTree(h.freqTable)} :
                IF h.ub
                THEN /\ mode' = "done" /\ dOutcome' = ubOutcome /\ ub' = TRUE
                     /\ dFreqTable' = h.freqTable
                     /\ UNCHANGED <<dBuildCalled, dTree, encoded, totalChars,
                                    loopVars, outOpened>>
                ELSE /\ dFreqTable' = h.freqTable
                     /\ encoded' = ReadPayload(file, h.st)
                     /\ dBuildCalled' = TRUE
                     /\ dTree' = tree
                     /\ IF tree.ub
                        THEN /\ mode' = "done" /\ dOutcome' = ubOutcome /\ ub' = TRUE
                             /\ UNCHANGED <<totalChars, loopVars, outOpened>>
                        ELSE /\ mode' = "decoding"
                             /\ outOpened' = TRUE
                             /\ current' = tree.root
                             /\ totalChars' = SumFreq(h.freqTable,
                                                      SortedKeys(DOMAIN h.freqTable))
                             /\ UNCHANGED <<bitPos, decodedCount, stopped, output,
                                            dOutcome, ub>>
    /\ UNCHANGED <<compressVars, fileVars>>

\* The child the cursor moves to on bit b (lines 182-186).
Descend(nodes, cur, b) == IF b = 0 THEN nodes[cur].left ELSE nodes[cur].right

\* One iteration of the decode loop (lines 181-193).  Moving the cursor to a
\* missing child makes line 188 dereference nullptr.
DecodeBit ==
    /\ mode = "decoding"
    /\ ~stopped
    /\ bitPos < Len(encoded)
    /\ \E ubOutcome \in UBOutcomes,
          nxt \in {Descend(dTree.nodes, current, encoded[bitPos + 1])} :
        /\ bitPos' = bitPos + 1
        /\ IF nxt = 0
           THEN /\ current' = 0
                /\ mode' = "done" /\ dOutcome' = ubOutcome /\ ub' = TRUE
                /\ UNCHANGED <<decodedCount, stopped, output>>
           ELSE IF IsLeaf(dTree.nodes, nxt)
           THEN /\ output' = Append(output, ToByte(dTree.nodes[nxt].data))
                /\ current' = dTree.root
                /\ decodedCount' = decodedCount + 1
                /\ stopped' = (decodedCount + 1 = totalChars)
                /\ UNCHANGED <<mode, dOutcome, ub>>
           ELSE /\ current' = nxt
                /\ UNCHANGED <<decodedCount, stopped, output, mode, dOutcome, ub>>
    /\ UNCHANGED <<compressVars, fileVars, headerVars, outOpened>>

\* Lines 195-196: the loop is left (break, or no character remains), the
\* output file is closed and success is printed.
DecodeFinish ==
    /\ mode = "decoding"
    /\ stopped \/ bitPos >= Len(encoded)
    /\ mode' = "done"
    /\ dOutcome' = "success"
    /\ UNCHANGED <<compressVars, fileVars, headerVars, loopVars, outOpened, ub>>

Next ==
    \/ CompressRun
    \/ WriteFile
    \/ DecompressOpen
    \/ DecodeBit
    \/ DecodeFinish

Spec == Init /\ [][Next]_vars

\* ============================================================ properties
content == SeqMap(input, 1)

IsPrefix(a, b) == Len(a) <= Len(b) /\ SubSeq(b, 1, Len(a)) = a

RECURSIVE Walk(_, _, _)
\* The node reached from n by the descents of code (0 left, 1 right); 0 when
\* a descent has no child to go to.
Walk(nodes, n, code) ==
    IF n = 0 \/ code = <<>> THEN n
    ELSE Walk(nodes, IF Head(code) = 0 THEN nodes[n].left ELSE nodes[n].right,
              Tail(code))

RECURSIVE ConcatCodes(_)
\* The codes of the first n input bytes, one after the other.
ConcatCodes(n) ==
    IF n = 0 THEN <<>> ELSE ConcatCodes(n - 1) \o huffmanCodes[content[n]]

\* Bit k (0-based, most significant bit of the first byte first) of the payload.
PayloadBit(k) == (payload[(k \div 8) + 1] \div (2 ^ (7 - (k % 8)))) % 2

\* The declared count and the pairs of the artifact do not make a header.
MalformedHeader ==
    \/ ~ReadInt(file, StreamOpen).assigned
    \/ ReadInt(file, StreamOpen).st.fail
    \/ ReadInt(file, StreamOpen).val < 1
    \/ ReadInt(file, StreamOpen).val > 256
    \/ ReadHeader(file).ub
    \/ ReadHeader(file).st.fail

\* C1: an artifact written by compressFile from a non-empty buffer decodes,
\* with success, to that buffer.
C1_RoundTrip ==
    (mode = "done" /\ origin = "compressed")
        => (dOutcome = "success" /\ output = input)

\* C2: a header declaring one symbol s with frequency f >= 1 decodes to f
\* copies of s whatever the payload, and the cursor never moves to a
\* missing child.
C2_SingleLeaf ==
    \A s \in DOMAIN dFreqTable :
        (dBuildCalled /\ DOMAIN dFreqTable = {s} /\ dFreqTable[s] >= 1)
            => /\ mode = "decoding" => current # 0
               /\ mode = "done" =>
                    /\ current # 0
                    /\ output = [i \in 1..dFreqTable[s] |-> ToByte(s)]

\* C3: with at least two distinct symbols in the table, no code of the table
\* made by generateHuffmanCodes is a prefix of (or equal to) the code of
\* another symbol.
C3_PrefixFree ==
    (treeBuilt /\ Cardinality(DOMAIN freqTable) >= 2)
        => \A a, b \in DOMAIN genCodes :
              a # b => ~IsPrefix(genCodes[a], genCodes[b])

\* C3 witness: a table of three symbols all of which received a code, of
\* two different lengths.
C3_Witness ==
    /\ treeBuilt
    /\ Cardinality(DOMAIN freqTable) >= 3
    /\ Cardinality(DOMAIN genCodes) >= 3
    /\ \E a, b \in DOMAIN genCodes : Len(genCodes[a]) < Len(genCodes[b])

\* C4: compressFile on an input file of length zero ends in an error, builds
\* no tree and never opens the output file.
C4_EmptyInput ==
    (inputOpened /\ input = <<>>)
        => /\ cOutcome = "error"
           /\ ~treeBuilt
           /\ ~fileExists
           /\ origin = "none"

\* C4 witness: compressFile has run on an input file that exists and is empty.
C4_Witness == inputOpened /\ input = <<>> /\ cOutcome = "error"

\* C5: when the payload ends before as many symbols were emitted as the
\* header frequencies sum to, decompressFile ends in an error.
C5_CorruptPayload ==
    (mode = "done" /\ dBuildCalled /\ ~ub /\ decodedCount < totalChars)
        => dOutcome = "error"

\* C6: buildHuffmanTree is never called with an empty frequency table nor
\* with the table of a malformed header, and a malformed header ends the
\* decode in an error.
C6_MalformedHeader ==
    /\ dBuildCalled => (DOMAIN dFreqTable # {} /\ ~MalformedHeader)
    /\ (mode = "done" /\ fileExists /\ MalformedHeader) => dOutcome = "error"

\* C8: the payload has ceil(S/8) bytes, S the summed code lengths of the
\* input bytes; its first S bits are the codes in input order, most
\* significant bit first, and the bits after them are zero.
C8_PayloadLength ==
    cOutcome = "success"
        => \A bits \in {ConcatCodes(Len(content))} :
              /\ Len(payload) = (Len(bits) + 7) \div 8
              /\ \A k \in 0..(8 * Len(payload) - 1) :
                    PayloadBit(k) = IF k < Len(bits) THEN bits[k + 1] ELSE 0

\* C8 witness: a payload of two bytes, the second one part code bits (a 1
\* among them) and part padding.
C8_Witness ==
    /\ cOutcome = "success"
    /\ Len(payload) = 2
    /\ Len(ConcatCodes(Len(content))) \in 9..15
    /\ payload[2] # 0

\* C9: every symbol of the table has a code of length at least 1, and
\* following that code from the root ends on the symbol's leaf unless the
\* root is itself a leaf.
C9_CodesTotal ==
    treeBuilt
        => \A s \in DOMAIN freqTable :
              /\ s \in DOMAIN genCodes
              /\ Len(genCodes[s]) >= 1
              /\ ~IsLeaf(huffmanTree.nodes, huffmanTree.root)
                    => huffmanTree.nodes[Walk(huffmanTree.nodes, huffmanTree.root,
                                              genCodes[s])].data = s

\* C10: in the decode loop the number of symbols emitted never exceeds the
\* sum of the header frequencies, and once it equals that sum no further
\* payload bit can be consumed.
C10_StopCondition ==
    mode \in {"decoding", "done"}
        => /\ decodedCount <= totalChars
           /\ (mode = "decoding" /\ decodedCount = totalChars)
                 => ~ENABLED DecodeBit
====
